---- MODULE Spec2Model ----
(* The cooperative scheduler of yproducer4.py (callbacks, coroutine tasks,  *)
(* timers, socket readiness) and its closable AsyncQueue, as a state        *)
(* machine.  One action per scheduler step, per callback and per operation  *)
(* a coroutine performs between two suspension points.                      *)
EXTENDS Integers, Sequences, FiniteSets, TLC

\* ------------------------------------------------------------------ bounds
NTasks == 3
MaxOps == 2
NCallbacks == 1
MaxChain == 1
NFds == 1
MaxItem == 1
MaxDelay == 1
MaxTime == 4
ClockSpan == 2
MaxCount == 2
MaxQueueOps == 6

Tasks == 1..NTasks
Callbacks == 1..NCallbacks
FDs == 1..NFds
Items == 0..MaxItem
Delays == (0 - 1)..MaxDelay

\* ------------------------------------------------------------ units of work
\* What the ready queue, the deadline queue, the readiness tables and the
\* waiter list hold: a Task object, a plain callback, or nothing (None).
Task(t) == [kind |-> "task", id |-> t]

Callback(c) == [kind |-> "cb", id |-> c]

None == [kind |-> "none", id |-> 0]

\* The coroutine a Task wraps: a scripted body (ops, repeated forever when
\* loop, wrapped in try/except QueueClosed when try) followed by up to
\* operations chosen freely; free counts the freely chosen operations the
\* tasks may still perform between them.
Op(name, arg) == [op |-> name, arg |-> arg]

FreeProg == [ops |-> <<>>, loop |-> FALSE, try |-> FALSE]

VARIABLES ready, sleeping, sequence, read_waiting, write_waiting, current,
          now, schedPc, q, pc, prog, ip, free, cbs,
          calls, fired, putLog, getLog, res, nqc, closedAt, putSnap

schedVars == <<ready, sleeping, sequence, read_waiting, write_waiting, current, now, schedPc>>

taskVars == <<pc, prog, ip, free>>

timerHist == <<calls, fired>>

queueHist == <<putLog, getLog, res, nqc, closedAt, putSnap>>

vars == <<schedVars, q, taskVars, cbs, timerHist, queueHist>>

\* ------------------------------------------------------------ deadline queue
\* heapq orders the (deadline, sequence, func) tuples lexicographically; the
\* sequence numbers are distinct, so func is never compared.
EntryLess(a, b) == a.deadline < b.deadline \/ (a.deadline = b.deadline /\ a.seq < b.seq)

\* A list append in place of heappush.
HeapPushAppend(h, e) == Append(h, e)

\* heappush: the heap is kept as the sorted sequence of its entries, whose
\* head is heap[0].
HeapPush(h, e) ==
    LET k == Cardinality({i \in 1..Len(h) : EntryLess(h[i], e)})
    IN  SubSeq(h, 1, k) \o <<e>> \o SubSeq(h, k + 1, Len(h))

\* call_later: the entry pushed for (delay, func) at clock reading t.
NewEntry(t, seq, delay, func) == [deadline |-> t + delay, seq |-> seq, func |-> func]

\* A test that finds no deadline past.
DeadlineNeverPast(t, e) == FALSE

\* run, line 71: the test that an entry's deadline is past.
DeadlinePast(t, e) == t > e.deadline

\* run, lines 51-57: the select timeout; NoTimeout stands for None.
NoTimeout == 0 - 1

Timeout(h, t) ==
    IF h # <<>>
    THEN (IF h[1].deadline - t < 0 THEN 0 ELSE h[1].deadline - t)
    ELSE NoTimeout

\* run, lines 70-74: the number of entries popped at clock reading t.
RECURSIVE NumExpired(_, _)
NumExpired(h, t) ==
    IF h # <<>> /\ DeadlinePast(t, h[1]) THEN 1 + NumExpired(Tail(h), t) ELSE 0

\* run, line 45: the loop condition.
Registered(tbl) == {fd \in FDs : tbl[fd] # None}

\* The loop condition of yproducer3.py, which knows no descriptor.
RunCondNoIO == ready # <<>> \/ sleeping # <<>>

\* A loop that never ends (while True).
RunCondAlways == TRUE

RunCond ==
    \/ ready # <<>>
    \/ sleeping # <<>>
    \/ Registered(read_waiting) # {}
    \/ Registered(write_waiting) # {}

\* ------------------------------------------------------------------ AsyncQueue
NewQueue == [items |-> <<>>, waiting |-> <<>>, closed |-> FALSE]

\* close() that only sets the flag, as in aproducer.py.
CloseNoWake(qu, rdy) == [q |-> [qu EXCEPT !.closed = TRUE], ready |-> rdy]

\* close() that makes the oldest waiter ready and leaves it in the waiter
\* list (waiting[0] in place of waiting.popleft()).
CloseKeepsWaiter(qu, rdy) ==
    IF qu.waiting # <<>> /\ qu.items = <<>>
    THEN [q |-> [qu EXCEPT !.closed = TRUE], ready |-> Append(rdy, Head(qu.waiting))]
    ELSE [q |-> [qu EXCEPT !.closed = TRUE], ready |-> rdy]

\* close: the queue and the ready queue after close().
Close(qu, rdy) ==
    IF qu.waiting # <<>> /\ qu.items = <<>>
    THEN [q |-> [qu EXCEPT !.closed = TRUE, !.waiting = Tail(qu.waiting)],
          ready |-> Append(rdy, Head(qu.waiting))]
    ELSE [q |-> [qu EXCEPT !.closed = TRUE], ready |-> rdy]

\* put() without the test of the closed flag, as in yproducer.py.
PutIgnoresClosed(qu, rdy, item) ==
    IF qu.waiting # <<>>
    THEN [exc |-> FALSE,
          q |-> [qu EXCEPT !.items = Append(qu.items, item), !.waiting = Tail(qu.waiting)],
          ready |-> Append(rdy, Head(qu.waiting))]
    ELSE [exc |-> FALSE, q |-> [qu EXCEPT !.items = Append(qu.items, item)], ready |-> rdy]

\* put() that wakes the newest waiter instead of the oldest.
PutWakesNewest(qu, rdy, item) ==
    IF qu.closed
    THEN [exc |-> TRUE, q |-> qu, ready |-> rdy]
    ELSE IF qu.waiting # <<>>
         THEN [exc |-> FALSE,
               q |-> [qu EXCEPT !.items = Append(qu.items, item),
                                !.waiting = SubSeq(qu.waiting, 1, Len(qu.waiting) - 1)],
               ready |-> Append(rdy, qu.waiting[Len(qu.waiting)])]
         ELSE [exc |-> FALSE, q |-> [qu EXCEPT !.items = Append(qu.items, item)], ready |-> rdy]

\* put() that appends the item and wakes nobody.
PutNoWake(qu, rdy, item) ==
    IF qu.closed
    THEN [exc |-> TRUE, q |-> qu, ready |-> rdy]
    ELSE [exc |-> FALSE, q |-> [qu EXCEPT !.items = Append(qu.items, item)], ready |-> rdy]

\* put() that hands the item to the woken waiter instead of buffering it.
PutHandsOver(qu, rdy, item) ==
    IF qu.closed
    THEN [exc |-> TRUE, q |-> qu, ready |-> rdy]
    ELSE IF qu.waiting # <<>>
         THEN [exc |-> FALSE, q |-> [qu EXCEPT !.waiting = Tail(qu.waiting)],
               ready |-> Append(rdy, Head(qu.waiting))]
         ELSE [exc |-> FALSE, q |-> [qu EXCEPT !.items = Append(qu.items, item)], ready |-> rdy]

\* put: exc is TRUE when put raises QueueClosed.
Put(qu, rdy, item) ==
    IF qu.closed
    THEN [exc |-> TRUE, q |-> qu, ready |-> rdy]
    ELSE IF qu.waiting # <<>>
         THEN [exc |-> FALSE,
               q |-> [qu EXCEPT !.items = Append(qu.items, item), !.waiting = Tail(qu.waiting)],
               ready |-> Append(rdy, Head(qu.waiting))]
         ELSE [exc |-> FALSE, q |-> [qu EXCEPT !.items = Append(qu.items, item)], ready |-> rdy]

\* get() that waits whenever there is no item, without the test of the
\* closed flag, as in yproducer.py.
GetIgnoresClosed(qu, t) ==
    IF qu.items # <<>>
    THEN [out |-> "item", item |-> Head(qu.items), q |-> [qu EXCEPT !.items = Tail(qu.items)]]
    ELSE [out |-> "blocked", item |-> 0, q |-> [qu EXCEPT !.waiting = Append(qu.waiting, Task(t))]]

\* get() that suspends on an empty open queue without registering the task
\* as a waiter.
GetForgetsWaiter(qu, t) ==
    IF qu.items # <<>>
    THEN [out |-> "item", item |-> Head(qu.items), q |-> [qu EXCEPT !.items = Tail(qu.items)]]
    ELSE IF qu.closed
         THEN [out |-> "QueueClosed", item |-> 0, q |-> qu]
         ELSE [out |-> "blocked", item |-> 0, q |-> qu]

\* get: one pass of the loop of get() made by task t, from its top to the
\* return, the raise or the suspension.
Get(qu, t) ==
    IF qu.items # <<>>
    THEN [out |-> "item", item |-> Head(qu.items), q |-> [qu EXCEPT !.items = Tail(qu.items)]]
    ELSE IF qu.closed
         THEN [out |-> "QueueClosed", item |-> 0, q |-> qu]
         ELSE [out |-> "blocked", item |-> 0, q |-> [qu EXCEPT !.waiting = Append(qu.waiting, Task(t))]]

\* ------------------------------------------------------------------ history
NoRes == [op |-> "none", out |-> "none", item |-> 0]

NoSnap == [taken |-> FALSE, items |-> <<>>, waiting |-> <<>>]

Snap(qu) == [taken |-> TRUE, items |-> qu.items, waiting |-> qu.waiting]

\* ------------------------------------------------------------------ Init
InitSched ==
    /\ ready = <<>>
    /\ sleeping = <<>>
    /\ sequence = 0
    /\ read_waiting = [fd \in FDs |-> None]
    /\ write_waiting = [fd \in FDs |-> None]
    /\ current = None
    /\ schedPc = "setup"
    /\ q = NewQueue
    /\ calls = <<>>
    /\ fired = <<>>
    /\ putLog = <<>>
    /\ getLog = <<>>
    /\ res = [t \in Tasks |-> NoRes]
    /\ nqc = [t \in Tasks |-> 0]
    /\ closedAt = NoSnap
    /\ putSnap = NoSnap

\* Free tasks and a callback chain; the clock can still advance by
\* ClockSpan when run() starts.
Init ==
    /\ InitSched
    /\ now = MaxTime - ClockSpan
    /\ pc = [t \in Tasks |-> "new"]
    /\ prog = [t \in Tasks |-> FreeProg]
    /\ ip = [t \in Tasks |-> 0]
    /\ free = MaxOps
    /\ cbs = [c \in Callbacks |-> [st |-> "new", n |-> 0]]

\* ------------------------------------------------------------------ setup
\* new_task before run(): tasks are numbered in the order they are created.
NewTask(t) ==
    /\ schedPc = "setup"
    /\ pc[t] = "new"
    /\ \A u \in Tasks : u < t => pc[u] # "new"
    /\ ready' = Append(ready, Task(t))
    /\ pc' = [pc EXCEPT ![t] = "run"]
    /\ UNCHANGED <<sleeping, sequence, read_waiting, write_waiting, current, now, schedPc>>
    /\ UNCHANGED <<q, prog, ip, free, cbs, timerHist, queueHist>>

\* call_soon that puts the unit of work at the head of the ready queue
\* (appendleft).
CallSoonFront(c, n) ==
    /\ schedPc = "setup"
    /\ cbs[c].st = "new"
    /\ \A d \in Callbacks : d < c => cbs[d].st # "new"
    /\ ready' = <<Callback(c)>> \o ready
    /\ cbs' = [cbs EXCEPT ![c] = [st |-> "live", n |-> n]]
    /\ UNCHANGED <<sleeping, sequence, read_waiting, write_waiting, current, now, schedPc>>
    /\ UNCHANGED <<q, taskVars, timerHist, queueHist>>

\* call_soon before run(): the callback chain c (countdown(n), countup)
\* that re-arms itself n times with call_later.
CallSoon(c, n) ==
    /\ schedPc = "setup"
    /\ cbs[c].st = "new"
    /\ \A d \in Callbacks : d < c => cbs[d].st # "new"
    /\ ready' = Append(ready, Callback(c))
    /\ cbs' = [cbs EXCEPT ![c] = [st |-> "live", n |-> n]]
    /\ UNCHANGED <<sleeping, sequence, read_waiting, write_waiting, current, now, schedPc>>
    /\ UNCHANGED <<q, taskVars, timerHist, queueHist>>

\* sched.run() is called once the scripted coroutines have been handed to
\* new_task.
RunStart ==
    /\ schedPc = "setup"
    /\ \A t \in Tasks : prog[t].ops # <<>> => pc[t] # "new"
    /\ schedPc' = "test"
    /\ UNCHANGED <<ready, sleeping, sequence, read_waiting, write_waiting, current, now>>
    /\ UNCHANGED <<q, taskVars, cbs, timerHist, queueHist>>

\* ------------------------------------------------------------------ run()
\* now is the latest reading of time.time().  Every action that reads the
\* clock takes the new reading as an input: no reading is below an earlier
\* one, and the model stops the clock at MaxTime.
Clock == now..MaxTime

\* A loop that waits in select on every iteration, without the test of the
\* ready queue of line 46.
LoopTestAlwaysWaits ==
    /\ schedPc = "test"
    /\ schedPc' = IF ~RunCond THEN "returned" ELSE "wait"
    /\ UNCHANGED <<ready, sleeping, sequence, read_waiting, write_waiting, current, now>>
    /\ UNCHANGED <<q, taskVars, cbs, timerHist, queueHist>>

\* Lines 45-46: the loop condition and the test of the ready queue.
LoopTest ==
    /\ schedPc = "test"
    /\ schedPc' = IF ~RunCond THEN "returned" ELSE IF ready = <<>> THEN "wait" ELSE "drain"
    /\ UNCHANGED <<ready, sleeping, sequence, read_waiting, write_waiting, current, now>>
    /\ UNCHANGED <<q, taskVars, cbs, timerHist, queueHist>>

\* The orders in which select may report the descriptors of S.
Orders(S) == {s \in [1..Cardinality(S) -> S] : \A i, j \in 1..Cardinality(S) : i # j => s[i] # s[j]}

\* A wake-up that pops the registrations and appends nothing.
WaitersDropped(tbl, fds) == <<>>

Waiters(tbl, fds) == [i \in 1..Len(fds) |-> tbl[fds[i]]]

Range(s) == {s[i] : i \in 1..Len(s)}

FiredEntry(e, upto) == [seq |-> e.seq, deadline |-> e.deadline, upto |-> upto]

\* Lines 51-74: select with the timeout of the nearest deadline, the ready
\* descriptors moved to the ready queue, then every past deadline popped.
\* can_read and can_write are the descriptors select reports; with none
\* ready select returns when the timeout has elapsed.  t1 is the clock
\* read at line 53 and t2 the clock read at line 69.
Wait(can_read, can_write, t1, t2) ==
    /\ schedPc = "wait"
    /\ Range(can_read) \subseteq Registered(read_waiting)
    /\ Range(can_write) \subseteq Registered(write_waiting)
    /\ LET timeout == Timeout(sleeping, t1)
           idle == can_read = <<>> /\ can_write = <<>>
           k == NumExpired(sleeping, t2)
           woken == SubSeq(sleeping, 1, k)
       IN  /\ idle => timeout # NoTimeout /\ t2 >= t1 + timeout
           /\ t2 >= t1
           /\ now' = t2
           /\ read_waiting' = [fd \in FDs |-> IF fd \in Range(can_read) THEN None ELSE read_waiting[fd]]
           /\ write_waiting' = [fd \in FDs |-> IF fd \in Range(can_write) THEN None ELSE write_waiting[fd]]
           /\ sleeping' = SubSeq(sleeping, k + 1, Len(sleeping))
           /\ ready' = ready \o Waiters(read_waiting, can_read) \o Waiters(write_waiting, can_write)
                             \o [i \in 1..k |-> woken[i].func]
           /\ fired' = fired \o [i \in 1..k |-> FiredEntry(woken[i], sequence)]
    /\ schedPc' = "drain"
    /\ UNCHANGED <<sequence, current, q, taskVars, cbs, calls, queueHist>>

\* Lines 76-78 with a callback at the head of the ready queue: the chain
\* re-arms itself with call_later(delay, ...) while it has rounds left; t is
\* the clock read by call_later.
InvokeCallback(delay, t) ==
    /\ schedPc = "drain"
    /\ ready # <<>>
    /\ Head(ready).kind = "cb"
    /\ LET c == Head(ready).id
       IN  IF cbs[c].n > 0
           THEN /\ t + delay < MaxTime
                /\ now' = t
                /\ sequence' = sequence + 1
                /\ sleeping' = HeapPush(sleeping, NewEntry(t, sequence + 1, delay, Callback(c)))
                /\ calls' = Append(calls, [delay |-> delay, at |-> t])
                /\ cbs' = [cbs EXCEPT ![c].n = @ - 1]
           ELSE /\ cbs' = [cbs EXCEPT ![c].st = "finished"]
                /\ UNCHANGED <<now, sequence, sleeping, calls>>
    /\ ready' = Tail(ready)
    /\ UNCHANGED <<read_waiting, write_waiting, current, schedPc>>
    /\ UNCHANGED <<q, taskVars, fired, queueHist>>

\* Lines 76-78 with a Task at the head, and Task.__call__ up to coro.send:
\* the task becomes current and its coroutine is resumed.  Resuming a
\* coroutine that has already finished raises out of run().
InvokeTask ==
    /\ schedPc = "drain"
    /\ ready # <<>>
    /\ Head(ready).kind = "task"
    /\ LET t == Head(ready).id
       IN  /\ current' = Task(t)
           /\ pc' = [pc EXCEPT ![t] = IF @ = "susp" THEN "run" ELSE @]
           /\ schedPc' = IF pc[t] \in {"run", "get", "susp"} THEN "call" ELSE "raised"
    /\ ready' = Tail(ready)
    /\ UNCHANGED <<sleeping, sequence, read_waiting, write_waiting, now>>
    /\ UNCHANGED <<q, prog, ip, free, cbs, timerHist, queueHist>>

\* Line 76: the drain pass ends when the ready queue is empty.
DrainExit ==
    /\ schedPc = "drain"
    /\ ready = <<>>
    /\ schedPc' = "test"
    /\ UNCHANGED <<ready, sleeping, sequence, read_waiting, write_waiting, current, now>>
    /\ UNCHANGED <<q, taskVars, cbs, timerHist, queueHist>>

\* ------------------------------------------------------------------ tasks
\* Task t is the one whose coroutine is being driven by Task.__call__.
Running(t) == schedPc = "call" /\ current = Task(t)

\* The coroutine of t is about to perform operation o.
CanDo(t, o) ==
    /\ Running(t)
    /\ pc[t] = "run"
    /\ IF ip[t] > 0 THEN prog[t].ops[ip[t]] = o ELSE free > 0

NextIp(t) ==
    IF ip[t] < Len(prog[t].ops) THEN ip[t] + 1 ELSE IF prog[t].loop THEN 1 ELSE 0

\* The operation at hand has returned.
Advance(t) ==
    /\ ip' = [ip EXCEPT ![t] = IF @ > 0 THEN NextIp(t) ELSE 0]
    /\ free' = IF ip[t] > 0 THEN free ELSE free - 1

\* A Task adapter that catches every exception: the fault ends the task and
\* run() goes on.
ThrowSwallowed(t, h) ==
    /\ pc' = [pc EXCEPT ![t] = "done"]
    /\ schedPc' = "drain"
    /\ UNCHANGED <<ip, free>>

\* QueueClosed is raised in the coroutine of t.  Inside a scripted body it is
\* caught when the body is wrapped in try/except (consumer, lines 176-183),
\* which ends the body; h says whether freely chosen code catches it.
\* Uncaught, it leaves Task.__call__ (which catches StopIteration only) and
\* run().
Throw(t, h) ==
    IF (IF ip[t] > 0 THEN prog[t].try ELSE h)
    THEN /\ pc' = [pc EXCEPT ![t] = "run"]
         /\ schedPc' = "call"
         /\ ip' = [ip EXCEPT ![t] = 0]
         /\ free' = IF ip[t] > 0 THEN free ELSE free - 1
    ELSE /\ pc' = [pc EXCEPT ![t] = "raised"]
         /\ schedPc' = "raised"
         /\ UNCHANGED <<ip, free>>

Result(name, out, item) == [op |-> name, out |-> out, item |-> item]

\* await q.put(item): put does not suspend.
OpPut(t, item, h) ==
    /\ CanDo(t, Op("put", item))
    /\ LET r == Put(q, ready, item)
       IN  /\ q' = r.q
           /\ ready' = r.ready
           /\ IF r.exc
              THEN /\ res' = [res EXCEPT ![t] = Result("put", "QueueClosed", item)]
                   /\ nqc' = [nqc EXCEPT ![t] = @ + 1]
                   /\ Throw(t, h)
                   /\ UNCHANGED <<putLog, putSnap>>
              ELSE /\ res' = [res EXCEPT ![t] = Result("put", "ok", item)]
                   /\ putLog' = Append(putLog, item)
                   /\ putSnap' = Snap(q)
                   /\ Advance(t)
                   /\ UNCHANGED <<pc, schedPc, nqc>>
    /\ UNCHANGED <<sleeping, sequence, read_waiting, write_waiting, current, now>>
    /\ UNCHANGED <<prog, cbs, timerHist, getLog, closedAt>>

\* One pass of the loop of get() in the coroutine of t: it returns the
\* oldest item, raises QueueClosed, or registers t as a waiter, clears
\* current and suspends (Task.__call__ then does not re-enqueue t).
GetPass(t, h) ==
    /\ LET r == Get(q, t)
       IN  /\ q' = r.q
           /\ res' = [res EXCEPT ![t] = Result("get", r.out, r.item)]
           /\ IF r.out = "item"
              THEN /\ getLog' = Append(getLog, [task |-> t, item |-> r.item])
                   /\ pc' = [pc EXCEPT ![t] = "run"]
                   /\ Advance(t)
                   /\ UNCHANGED <<schedPc, current, nqc>>
              ELSE IF r.out = "QueueClosed"
              THEN /\ nqc' = [nqc EXCEPT ![t] = @ + 1]
                   /\ Throw(t, h)
                   /\ UNCHANGED <<getLog, current>>
              ELSE /\ pc' = [pc EXCEPT ![t] = "get"]
                   /\ current' = None
                   /\ schedPc' = "drain"
                   /\ UNCHANGED <<getLog, nqc, ip, free>>
    /\ UNCHANGED <<ready, sleeping, sequence, read_waiting, write_waiting, now>>
    /\ UNCHANGED <<prog, cbs, timerHist, putLog, closedAt, putSnap>>

\* await q.get(): the first pass of its loop.
OpGet(t, h) ==
    /\ CanDo(t, Op("get", 0))
    /\ GetPass(t, h)

\* A task suspended in get() is resumed at line 163 and loops.
GetResume(t, h) ==
    /\ Running(t)
    /\ pc[t] = "get"
    /\ GetPass(t, h)

\* q.close()
OpClose(t) ==
    /\ CanDo(t, Op("close", 0))
    /\ LET r == Close(q, ready)
       IN  /\ q' = r.q
           /\ ready' = r.ready
    /\ closedAt' = IF q.closed THEN closedAt ELSE Snap(q)
    /\ res' = [res EXCEPT ![t] = Result("close", "ok", 0)]
    /\ Advance(t)
    /\ UNCHANGED <<sleeping, sequence, read_waiting, write_waiting, current, now, schedPc>>
    /\ UNCHANGED <<pc, prog, cbs, timerHist, putLog, getLog, nqc, putSnap>>

\* await sched.sleep(delay): call_later(delay, current), current cleared,
\* then the switch; clk is the clock read by call_later.
OpSleep(t, delay, clk) ==
    /\ CanDo(t, Op("sleep", delay))
    /\ clk + delay < MaxTime
    /\ now' = clk
    /\ sequence' = sequence + 1
    /\ sleeping' = HeapPush(sleeping, NewEntry(clk, sequence + 1, delay, current))
    /\ calls' = Append(calls, [delay |-> delay, at |-> clk])
    /\ current' = None
    /\ pc' = [pc EXCEPT ![t] = "susp"]
    /\ schedPc' = "drain"
    /\ Advance(t)
    /\ UNCHANGED <<ready, read_waiting, write_waiting>>
    /\ UNCHANGED <<q, prog, cbs, fired, queueHist>>

\* await sched.recv(sock, n) and await sched.accept(sock): read_wait(sock,
\* current), current cleared, then the switch.
OpRecv(t, fd) ==
    /\ CanDo(t, Op("recv", fd))
    /\ read_waiting' = [read_waiting EXCEPT ![fd] = current]
    /\ current' = None
    /\ pc' = [pc EXCEPT ![t] = "susp"]
    /\ schedPc' = "drain"
    /\ Advance(t)
    /\ UNCHANGED <<ready, sleeping, sequence, write_waiting, now>>
    /\ UNCHANGED <<q, prog, cbs, timerHist, queueHist>>

\* await sched.send(sock, data)
OpSend(t, fd) ==
    /\ CanDo(t, Op("send", fd))
    /\ write_waiting' = [write_waiting EXCEPT ![fd] = current]
    /\ current' = None
    /\ pc' = [pc EXCEPT ![t] = "susp"]
    /\ schedPc' = "drain"
    /\ Advance(t)
    /\ UNCHANGED <<ready, sleeping, sequence, read_waiting, now>>
    /\ UNCHANGED <<q, prog, cbs, timerHist, queueHist>>

\* A Task step that never appends the task to the ready queue after a
\* suspension.
OpSwitchDropped(t) ==
    /\ CanDo(t, Op("switch", 0))
    /\ schedPc' = "drain"
    /\ Advance(t)
    /\ UNCHANGED <<ready, sleeping, sequence, read_waiting, write_waiting, current, now>>
    /\ UNCHANGED <<q, pc, prog, cbs, timerHist, queueHist>>

\* await switch() outside any helper: current is still set when the
\* coroutine suspends, so Task.__call__ appends the task to the ready queue
\* (lines 119-120).
OpSwitch(t) ==
    /\ CanDo(t, Op("switch", 0))
    /\ ready' = Append(ready, current)
    /\ schedPc' = "drain"
    /\ Advance(t)
    /\ UNCHANGED <<sleeping, sequence, read_waiting, write_waiting, current, now>>
    /\ UNCHANGED <<q, pc, prog, cbs, timerHist, queueHist>>

\* The coroutine returns: StopIteration is caught and the Task is dropped.
OpFinish(t) ==
    /\ Running(t)
    /\ pc[t] = "run"
    /\ ip[t] = 0
    /\ pc' = [pc EXCEPT ![t] = "done"]
    /\ schedPc' = "drain"
    /\ UNCHANGED <<ready, sleeping, sequence, read_waiting, write_waiting, current, now>>
    /\ UNCHANGED <<q, prog, ip, free, cbs, timerHist, queueHist>>

\* ------------------------------------------------------------------ Spec
QueueStep(t) ==
    \/ \E item \in Items, h \in BOOLEAN : OpPut(t, item, h)
    \/ \E h \in BOOLEAN : OpGet(t, h)
    \/ \E h \in BOOLEAN : GetResume(t, h)
    \/ OpClose(t)

WaitStep(t) ==
    \/ \E delay \in Delays, clk \in Clock : OpSleep(t, delay, clk)
    \/ \E fd \in FDs : OpRecv(t, fd)
    \/ \E fd \in FDs : OpSend(t, fd)
    \/ OpSwitch(t)

Select ==
    \E rd \in SUBSET FDs, wr \in SUBSET FDs :
        \E can_read \in Orders(rd), can_write \in Orders(wr), t1 \in Clock, t2 \in Clock :
            Wait(can_read, can_write, t1, t2)

\* Everything: callbacks and tasks, timers, descriptors and the queue.
Next ==
    \/ \E t \in Tasks : NewTask(t)
    \/ \E c \in Callbacks, n \in 0..MaxChain : CallSoon(c, n)
    \/ RunStart
    \/ LoopTest
    \/ Select
    \/ \E delay \in Delays, t \in Clock : InvokeCallback(delay, t)
    \/ InvokeTask
    \/ DrainExit
    \/ \E t \in Tasks : QueueStep(t)
    \/ \E t \in Tasks : WaitStep(t)
    \/ \E t \in Tasks : OpFinish(t)

Spec == Init /\ [][Next]_vars

\* The steps the scheduler and the units of work take by themselves: all
\* but a descriptor becoming ready, which is up to the peer.
SelectIdle == \E t1 \in Clock, t2 \in Clock : Wait(<<>>, <<>>, t1, t2)

Internal ==
    \/ RunStart
    \/ LoopTest
    \/ SelectIdle
    \/ \E delay \in Delays, t \in Clock : InvokeCallback(delay, t)
    \/ InvokeTask
    \/ DrainExit
    \/ \E t \in Tasks : QueueStep(t) \/ WaitStep(t) \/ OpFinish(t)

\* The clock advances: a pass of lines 51-74 that finds the nearest
\* deadline past and pops it.
TimerFires == Select /\ Len(sleeping') < Len(sleeping)

\* run() keeps taking steps and the clock keeps advancing.
SpecLive == Init /\ [][Next]_vars /\ WF_vars(Internal) /\ SF_vars(TimerFires)

\* Tasks that only use the queue: no timer, no descriptor, no callback.
NextQueue ==
    \/ \E t \in Tasks : NewTask(t)
    \/ RunStart
    \/ LoopTest
    \/ InvokeTask
    \/ DrainExit
    \/ \E t \in Tasks : QueueStep(t)
    \/ \E t \in Tasks : OpFinish(t)

InitQueue ==
    /\ InitSched
    /\ now = 0
    /\ pc = [t \in Tasks |-> "new"]
    /\ prog = [t \in Tasks |-> FreeProg]
    /\ ip = [t \in Tasks |-> 0]
    /\ free = MaxQueueOps
    /\ cbs = [c \in Callbacks |-> [st |-> "new", n |-> 0]]

SpecQueue == InitQueue /\ [][NextQueue]_vars

\* ------------------------------------------------------------------ scenarios
\* consumer (lines 175-183): get() in a loop inside try/except QueueClosed.
Consumer == [ops |-> <<Op("get", 0)>>, loop |-> TRUE, try |-> TRUE]

\* A coroutine that awaits q.get() once, inside try/except QueueClosed.
GetOnce == [ops |-> <<Op("get", 0)>>, loop |-> FALSE, try |-> TRUE]

\* producer(q, count) (lines 167-173): put(n) and sleep(1) for n in
\* range(count), then close().
ProducerDelay == 1

Producer(count) ==
    [ops |-> [i \in 1..(2 * count + 1) |->
                 IF i = 2 * count + 1 THEN Op("close", 0)
                 ELSE IF i % 2 = 1 THEN Op("put", (i - 1) \div 2)
                 ELSE Op("sleep", ProducerDelay)],
     loop |-> FALSE, try |-> FALSE]

\* Coroutines that put one item, at once or after a sleep.
PutOnce == {[ops |-> <<Op("put", x)>>, loop |-> FALSE, try |-> FALSE] : x \in Items}
           \cup {[ops |-> <<Op("sleep", d), Op("put", x)>>, loop |-> FALSE, try |-> FALSE] :
                    d \in Delays, x \in Items}

\* A task of Tasks that new_task is never called for.
Unused == [ops |-> <<>>, loop |-> FALSE, try |-> FALSE]

InitScripted(programs) ==
    /\ InitSched
    /\ now = 0
    /\ prog = programs
    /\ pc = [t \in Tasks |-> IF programs[t] = Unused THEN "unused" ELSE "new"]
    /\ ip = [t \in Tasks |-> IF programs[t] = Unused THEN 0 ELSE 1]
    /\ free = 0
    /\ cbs = [c \in Callbacks |-> [st |-> "new", n |-> 0]]

\* Two tasks that get and one task that puts a single item, created in any
\* order.
InitRace ==
    \E p \in 1..3, g1 \in {Consumer, GetOnce}, g2 \in {Consumer, GetOnce}, pp \in PutOnce :
        InitScripted([t \in Tasks |->
            IF t = p THEN pp
            ELSE IF t > 3 THEN Unused
            ELSE IF t = 1 \/ (p = 1 /\ t = 2) THEN g1 ELSE g2])

NextRace ==
    \/ \E t \in Tasks : NewTask(t)
    \/ RunStart
    \/ LoopTest
    \/ Select
    \/ InvokeTask
    \/ DrainExit
    \/ \E t \in Tasks, item \in Items, h \in BOOLEAN : OpPut(t, item, h)
    \/ \E t \in Tasks, h \in BOOLEAN : OpGet(t, h)
    \/ \E t \in Tasks, h \in BOOLEAN : GetResume(t, h)
    \/ \E t \in Tasks, delay \in Delays, clk \in Clock : OpSleep(t, delay, clk)
    \/ \E t \in Tasks : OpFinish(t)

SpecRace == InitRace /\ [][NextRace]_vars

\* The demonstration of lines 185-187: producer(q, count) and consumer(q),
\* created in either order.
InitPC ==
    \E count \in 0..MaxCount, p \in 1..2 :
        InitScripted([t \in Tasks |->
            IF t = p THEN Producer(count) ELSE IF t > 2 THEN Unused ELSE Consumer])

NextPC ==
    \/ \E t \in Tasks : NewTask(t)
    \/ RunStart
    \/ LoopTest
    \/ Select
    \/ InvokeTask
    \/ DrainExit
    \/ \E t \in Tasks, item \in 0..MaxCount, h \in BOOLEAN : OpPut(t, item, h)
    \/ \E t \in Tasks, h \in BOOLEAN : OpGet(t, h)
    \/ \E t \in Tasks, h \in BOOLEAN : GetResume(t, h)
    \/ \E t \in Tasks : OpClose(t)
    \/ \E t \in Tasks, clk \in Clock : OpSleep(t, ProducerDelay, clk)
    \/ \E t \in Tasks : OpFinish(t)

SpecPC == InitPC /\ [][NextPC]_vars

\* ------------------------------------------------------------------ claims
\* The items get() has returned, in the order of the returns.
GotItems == [i \in 1..Len(getLog) |-> getLog[i].item]

\* The tasks that were registered as waiters when close() first ran.
BlockedAtClose == {closedAt.waiting[i].id : i \in 1..Len(closedAt.waiting)}

\* The drain pass is over: run() is back at its loop test, is about to
\* wait, or has returned.
PassOver == schedPc \in {"test", "wait", "returned"}

\* C1: after close(), every task blocked in get() is resumed and fails with
\* QueueClosed, so none is left in the waiter list for good.  Stated on the
\* final state: once run() has returned on a closed queue, the waiter list is
\* empty and no task is still suspended in get().
C1_NoWaiterLeftAfterClose ==
    (schedPc = "returned" /\ q.closed) =>
        (q.waiting = <<>> /\ \A t \in Tasks : pc[t] # "get")

\* C2: every task that was blocked in get() on an empty, open queue when
\* close() ran has been resumed and has had QueueClosed raised in it by the end
\* of the drain pass in which close() ran.
C2_ClosureSeenInSamePass ==
    (PassOver /\ closedAt.taken /\ closedAt.items = <<>>) =>
        \A t \in BlockedAtClose : pc[t] # "get" /\ nqc[t] > 0

\* The items task t has received from get(), in order.
GotBy(t) ==
    LET mine == SelectSeq(getLog, LAMBDA e : e.task = t)
    IN  [i \in 1..Len(mine) |-> mine[i].item]

\* The one put() of the scenario found two waiters and no item.
RaceHappened == putSnap.taken /\ Len(putSnap.waiting) = 2 /\ putSnap.items = <<>>

\* C3: two tasks are blocked in get() on an empty open queue and one put(x)
\* is made.  The task that did not get x has received nothing and is still
\* suspended in get() and registered as a waiter; the other has received x
\* and nothing else by the end of the drain pass.
C3_OneWaiterReceives ==
    RaceHappened =>
        LET a == putSnap.waiting[1].id
            b == putSnap.waiting[2].id
            x == putLog[1]
        IN  /\ GotBy(b) = <<>>
            /\ pc[b] = "get"
            /\ Task(b) \in Range(q.waiting)
            /\ GotBy(a) \in {<<>>, <<x>>}
            /\ PassOver => GotBy(a) = <<x>>

C3_Witness ==
    /\ RaceHappened
    /\ schedPc = "returned"
    /\ GotBy(putSnap.waiting[1].id) = <<putLog[1]>>
    /\ GotBy(putSnap.waiting[2].id) = <<>>

\* t makes a pass of the loop of get(): it calls get() or is resumed in it.
GetStep(t) == \E h \in BOOLEAN : OpGet(t, h) \/ GetResume(t, h)

\* C4: closing keeps the buffered items.  The items returned by get() so
\* far followed by the buffered items are always the items put, in the order
\* they were put; close() leaves the item sequence as it is; and a pass of
\* get() that finds the queue closed and empty raises QueueClosed at once:
\* it registers no waiter, does not suspend and returns no value.
C4_CloseKeepsItems ==
    /\ [](GotItems \o q.items = putLog)
    /\ [][\A t \in Tasks : OpClose(t) => q'.items = q.items]_vars
    /\ [][\A t \in Tasks : (q.closed /\ q.items = <<>> /\ GetStep(t)) =>
            (res'[t] = Result("get", "QueueClosed", 0) /\ q' = q /\ pc'[t] # "get")]_vars

\* put(0); put(1); close(), then get() has returned 0 and 1 and a further
\* get() has raised QueueClosed.
C4_Witness ==
    /\ closedAt.taken
    /\ closedAt.items = <<0, 1>>
    /\ putLog = <<0, 1>>
    /\ GotItems = <<0, 1>>
    /\ \E t \in Tasks : res[t] = Result("get", "QueueClosed", 0)

\* The producer and the consumer of the demonstration, and its count.
ProducerTask == CHOOSE t \in Tasks : prog[t].ops # <<>> /\ ~prog[t].loop

ConsumerTask == CHOOSE t \in Tasks : prog[t].loop

Count == (Len(prog[ProducerTask].ops) - 1) \div 2

\* C5: the producer puts 0..N-1, sleeping after each put, and closes; the
\* consumer loops on get() until QueueClosed.  The consumer receives
\* 0, 1, ... in ascending order and never more than N items, QueueClosed is
\* raised in it at most once and only after the N-th item, and when run() has
\* returned it has received exactly N items, has seen QueueClosed once and is
\* complete.
C5_EndToEnd ==
    /\ Len(getLog) <= Count
    /\ \A i \in 1..Len(getLog) : getLog[i] = [task |-> ConsumerTask, item |-> i - 1]
    /\ nqc[ConsumerTask] <= 1
    /\ nqc[ConsumerTask] = 1 => Len(getLog) = Count
    /\ schedPc = "returned" =>
          /\ Len(getLog) = Count
          /\ nqc[ConsumerTask] = 1
          /\ pc[ConsumerTask] = "done"
          /\ pc[ProducerTask] = "done"

C5_Witness ==
    /\ schedPc = "returned"
    /\ Count = MaxCount
    /\ Count >= 2
    /\ Len(getLog) = Count
    /\ nqc[ConsumerTask] = 1

\* C6: put() on a closed queue raises QueueClosed and changes neither the
\* queue (no item appended, no waiter removed) nor the ready queue.
C6_PutOnClosedFails ==
    [][\A t \in Tasks, item \in Items :
          (q.closed /\ \E h \in BOOLEAN : OpPut(t, item, h)) =>
              /\ res'[t] = Result("put", "QueueClosed", item)
              /\ q' = q
              /\ ready' = ready]_vars

C6_Witness ==
    /\ q.closed
    /\ \E t \in Tasks : res[t].op = "put" /\ res[t].out = "QueueClosed"

\* C7: run() returns only when the ready queue, the deadline queue, the read
\* table and the write table are all empty.
C7_ReturnsOnlyWhenEmpty ==
    schedPc = "returned" =>
        /\ ready = <<>>
        /\ sleeping = <<>>
        /\ Registered(read_waiting) = {}
        /\ Registered(write_waiting) = {}

\* run() has returned after timers fired and descriptors became ready.
C7_Witness ==
    /\ schedPc = "returned"
    /\ fired # <<>>
    /\ \E t \in Tasks : pc[t] = "done"

\* Every task handed to new_task has run to completion.
AllTasksDone == \A t \in Tasks : pc[t] \in {"new", "unused", "done"}

\* C8: once run() has been entered and every task has completed, run()
\* eventually returns (the timers that callbacks left are delivered as the
\* clock advances; no descriptor is registered, for a registered task is not
\* complete).
C8_RunReturns == (schedPc # "setup" /\ AllTasksDone) ~> schedPc = "returned"

\* run() has returned after tasks completed, a task having slept and a
\* callback having re-armed itself.
C8_Witness ==
    /\ schedPc = "returned"
    /\ AllTasksDone
    /\ \E t \in Tasks : pc[t] = "done"
    /\ Len(fired) >= 2
    /\ \E c \in Callbacks : cbs[c].st = "finished"

\* The delay given to the call_later that created a delivered entry.
DelayOf(f) == calls[f.seq].delay

\* C9 as stated: timers are delivered in non-decreasing order of the delay
\* d_i given to call_later, equal delays in insertion order.
C9_OrderedByDelay ==
    \A i, j \in 1..Len(fired) :
        i < j => \/ DelayOf(fired[i]) < DelayOf(fired[j])
                 \/ (DelayOf(fired[i]) = DelayOf(fired[j]) /\ fired[i].seq < fired[j].seq)

\* C9 amended: of two entries that were in the deadline queue together, the
\* one with the smaller deadline (the clock read by call_later plus d_i) is
\* delivered first, and of two with equal deadlines the one inserted first.
C9_OrderedByDeadline ==
    \A i, j \in 1..Len(fired) :
        (i < j /\ fired[j].seq <= fired[i].upto) => EntryLess(fired[i], fired[j])

\* Two entries with different delays and the same deadline were pending
\* together and were delivered in insertion order: the later delay is smaller.
C9_Witness ==
    \E i, j \in 1..Len(fired) :
        /\ i < j
        /\ fired[j].seq <= fired[i].upto
        /\ fired[i].deadline = fired[j].deadline
        /\ DelayOf(fired[i]) > DelayOf(fired[j])

\* C10: a timer created with a zero or negative delay is popped by the first
\* pass of lines 51-74 made after the call, whatever the clock reads then.
C10_ZeroDelayFiresNext ==
    [][(schedPc = "wait" /\ schedPc' = "drain") =>
          \A i \in 1..Len(sleeping) :
              calls[sleeping[i].seq].delay <= 0 =>
                  \A k \in 1..Len(sleeping') : sleeping'[k].seq # sleeping[i].seq]_vars

\* s is an initial segment of t.
IsPrefix(s, t) == Len(s) <= Len(t) /\ SubSeq(t, 1, Len(s)) = s

\* The step invokes the unit of work at the head of the ready queue.
InvokesHead == InvokeTask \/ \E delay \in Delays, t \in Clock : InvokeCallback(delay, t)

\* C11: units of work are invoked in the order they were enqueued, each
\* exactly once.  Every step either invokes the head of the ready queue and
\* removes exactly it, or invokes nothing and removes nothing; in both cases
\* the units already queued keep their order and new units are added at the
\* tail only.
C11_ReadyIsFifo ==
    [][IF InvokesHead
       THEN ready # <<>> /\ IsPrefix(Tail(ready), ready')
       ELSE IsPrefix(ready, ready')]_vars

\* run() has returned after every task and callback enqueued before run(),
\* and a waiter enqueued by put() during a drain pass, have been invoked.
C11_Witness ==
    /\ schedPc = "returned"
    /\ \A t \in Tasks : pc[t] = "done"
    /\ \A c \in Callbacks : cbs[c].st = "finished"
    /\ putSnap.taken
    /\ putSnap.waiting # <<>>
    /\ getLog # <<>>

\* QueueClosed is raised in the coroutine of t by put() or get() and the
\* coroutine does not catch it.
UncaughtFault(t) ==
    /\ ip[t] > 0 => ~prog[t].try
    /\ \/ \E item \in Items : q.closed /\ OpPut(t, item, FALSE)
       \/ q.closed /\ q.items = <<>> /\ (OpGet(t, FALSE) \/ GetResume(t, FALSE))

\* C12: a fault that a unit of work does not handle is caught neither by
\* Task.__call__ nor by run(): it leaves run() in the step that raised it,
\* with the ready queue and the deadline queue as they were, and run() takes
\* no step afterwards (no ready work invoked, no timer fired).
C12_FaultStopsRun ==
    /\ [][\A t \in Tasks : UncaughtFault(t) =>
             /\ schedPc' = "raised"
             /\ pc'[t] = "raised"
             /\ ready' = ready
             /\ sleeping' = sleeping]_vars
    /\ [][schedPc # "raised"]_vars

\* put() on a closed queue raised out of run() while a unit of work was
\* ready and a timer pending.
C12_Witness ==
    /\ schedPc = "raised"
    /\ \E t \in Tasks : pc[t] = "raised" /\ res[t] \in {Result("put", "QueueClosed", x) : x \in Items}
    /\ ready # <<>>
    /\ sleeping # <<>>

\* C13: close() is idempotent.  Whenever a task is running and could call
\* close(), calling it twice in a row leaves the queue, its waiter list and
\* the ready queue as calling it once does.
C13_CloseIdempotent ==
    schedPc = "call" =>
        LET once == Close(q, ready)
        IN  Close(once.q, once.ready) = once

\* ------------------------------------------------------------------ yproducer.py
\* The first coroutine version: the ready queue holds the coroutines
\* themselves, run() (lines 27-43) resumes one coroutine per iteration, and
\* the queue has no closed flag.  Task(t) stands for coroutine t, and
\* schedPc = "test" for line 28.
MaxY1Ops == 3

InitY1 ==
    /\ InitSched
    /\ now = 0
    /\ pc = [t \in Tasks |-> "new"]
    /\ prog = [t \in Tasks |-> FreeProg]
    /\ ip = [t \in Tasks |-> 0]
    /\ free = MaxY1Ops
    /\ cbs = [c \in Callbacks |-> [st |-> "new", n |-> 0]]

\* new_task (lines 24-25) appends the coroutine to the ready queue and
\* sched.run() is called once (line 93): NewTask and RunStart as they are.
\* Line 28: the loop ends when nothing is ready and nothing sleeps.
Y1_RunReturn ==
    /\ schedPc = "test"
    /\ ready = <<>>
    /\ sleeping = <<>>
    /\ schedPc' = "returned"
    /\ UNCHANGED <<ready, sleeping, sequence, read_waiting, write_waiting, current, now>>
    /\ UNCHANGED <<q, taskVars, cbs, timerHist, queueHist>>

\* Lines 29-39: with nothing ready the nearest sleeper is popped and waited
\* for (clk is the clock after time.sleep); then the head of the ready queue
\* becomes current and is resumed.
Y1_RunNext(clk) ==
    /\ schedPc = "test"
    /\ ready # <<>> \/ sleeping # <<>>
    /\ IF ready = <<>>
       THEN /\ clk >= sleeping[1].deadline
            /\ now' = clk
            /\ sleeping' = Tail(sleeping)
            /\ fired' = Append(fired, FiredEntry(sleeping[1], sequence))
       ELSE UNCHANGED <<now, sleeping, fired>>
    /\ LET rdy == IF ready = <<>> THEN <<sleeping[1].func>> ELSE ready
           t == Head(rdy).id
       IN  /\ current' = Head(rdy)
           /\ ready' = Tail(rdy)
           /\ pc' = [pc EXCEPT ![t] = IF @ = "susp" THEN "run" ELSE @]
    /\ schedPc' = "call"
    /\ UNCHANGED <<sequence, read_waiting, write_waiting>>
    /\ UNCHANGED <<q, prog, ip, free, cbs, calls, queueHist>>

\* The coroutine of t is running and may perform one more operation.
Y1_CanDo(t) == Running(t) /\ pc[t] = "run" /\ free > 0

\* put (lines 61-64): no closed flag; the item is appended and the oldest
\* waiter, if any, is made ready.
Y1_put(t, item) ==
    /\ Y1_CanDo(t)
    /\ q' = [q EXCEPT !.items = Append(q.items, item),
                      !.waiting = IF q.waiting # <<>> THEN Tail(q.waiting) ELSE q.waiting]
    /\ ready' = IF q.waiting # <<>> THEN Append(ready, Head(q.waiting)) ELSE ready
    /\ res' = [res EXCEPT ![t] = Result("put", "ok", item)]
    /\ putLog' = Append(putLog, item)
    /\ putSnap' = Snap(q)
    /\ free' = free - 1
    /\ UNCHANGED <<sleeping, sequence, read_waiting, write_waiting, current, now, schedPc>>
    /\ UNCHANGED <<pc, prog, ip, cbs, timerHist, getLog, nqc, closedAt>>

\* Line 72: items.popleft(), which raises IndexError on an empty deque; the
\* exception is not StopIteration and leaves run().
Y1_popleft(t) ==
    IF q.items # <<>>
    THEN /\ q' = [q EXCEPT !.items = Tail(q.items)]
         /\ res' = [res EXCEPT ![t] = Result("get", "item", Head(q.items))]
         /\ getLog' = Append(getLog, [task |-> t, item |-> Head(q.items)])
         /\ pc' = [pc EXCEPT ![t] = "run"]
         /\ UNCHANGED schedPc
    ELSE /\ res' = [res EXCEPT ![t] = Result("get", "IndexError", 0)]
         /\ pc' = [pc EXCEPT ![t] = "raised"]
         /\ schedPc' = "raised"
         /\ UNCHANGED <<q, getLog>>

\* get (lines 66-72) up to its return or its suspension: with no item the
\* coroutine registers as a waiter, clears current and switches, so run()
\* does not re-append it (lines 40-41).
Y1_get(t) ==
    /\ Y1_CanDo(t)
    /\ free' = free - 1
    /\ IF q.items = <<>>
       THEN /\ q' = [q EXCEPT !.waiting = Append(q.waiting, current)]
            /\ current' = None
            /\ pc' = [pc EXCEPT ![t] = "get"]
            /\ schedPc' = "test"
            /\ res' = [res EXCEPT ![t] = Result("get", "blocked", 0)]
            /\ UNCHANGED getLog
       ELSE /\ Y1_popleft(t)
            /\ UNCHANGED current
    /\ UNCHANGED <<ready, sleeping, sequence, read_waiting, write_waiting, now>>
    /\ UNCHANGED <<prog, ip, cbs, timerHist, putLog, nqc, closedAt, putSnap>>

\* A coroutine suspended in get() is resumed after line 71 and goes on to
\* line 72 without testing the item sequence again.
Y1_get_resume(t) ==
    /\ Running(t)
    /\ pc[t] = "get"
    /\ Y1_popleft(t)
    /\ UNCHANGED <<ready, sleeping, sequence, read_waiting, write_waiting, current, now>>
    /\ UNCHANGED <<prog, ip, free, cbs, timerHist, putLog, nqc, closedAt, putSnap>>

\* sleep (lines 16-22): the coroutine is pushed on the deadline heap, current
\* is cleared and the coroutine switches.
Y1_sleep(t, delay, clk) ==
    /\ Y1_CanDo(t)
    /\ clk + delay < MaxTime
    /\ now' = clk
    /\ sequence' = sequence + 1
    /\ sleeping' = HeapPush(sleeping, NewEntry(clk, sequence + 1, delay, current))
    /\ calls' = Append(calls, [delay |-> delay, at |-> clk])
    /\ current' = None
    /\ pc' = [pc EXCEPT ![t] = "susp"]
    /\ schedPc' = "test"
    /\ free' = free - 1
    /\ UNCHANGED <<ready, read_waiting, write_waiting>>
    /\ UNCHANGED <<q, prog, ip, cbs, fired, queueHist>>

\* The coroutine returns: StopIteration is caught at lines 42-43.
Y1_finish(t) ==
    /\ Running(t)
    /\ pc[t] = "run"
    /\ pc' = [pc EXCEPT ![t] = "done"]
    /\ schedPc' = "test"
    /\ UNCHANGED <<ready, sleeping, sequence, read_waiting, write_waiting, current, now>>
    /\ UNCHANGED <<q, prog, ip, free, cbs, timerHist, queueHist>>

NextY1 ==
    \/ \E t \in Tasks : NewTask(t)
    \/ RunStart
    \/ Y1_RunReturn
    \/ \E clk \in Clock : Y1_RunNext(clk)
    \/ \E t \in Tasks, item \in Items : Y1_put(t, item)
    \/ \E t \in Tasks : Y1_get(t)
    \/ \E t \in Tasks : Y1_get_resume(t)
    \/ \E t \in Tasks, delay \in Delays, clk \in Clock : Y1_sleep(t, delay, clk)
    \/ \E t \in Tasks : Y1_finish(t)

SpecY1 == InitY1 /\ [][NextY1]_vars

\* C14: under every interleaving of tasks that put and get, get() never
\* removes an element from an empty item sequence, and the values returned
\* by get(), in the order of the returns, followed by the items still
\* buffered are the items put, in put order (so no item is returned twice).
C14_GetFifo ==
    /\ \A t \in Tasks : res[t].out # "IndexError"
    /\ GotItems \o q.items = putLog

\* C15: in steady state, when the ready queue has been drained and run() is
\* at its loop test, about to wait, or has returned, the item sequence and
\* the waiter list of the queue are not both non-empty.
C15_NoWaiterBesideItem ==
    PassOver => ~(q.items # <<>> /\ q.waiting # <<>>)

\* A drain pass is over in which put() found two waiters: the woken one
\* took the item and the other is still waiting.
C15_Witness ==
    /\ PassOver
    /\ putSnap.taken
    /\ Len(putSnap.waiting) = 2
    /\ q.waiting # <<>>
    /\ q.items = <<>>
    /\ getLog # <<>>

\* The number of places of the sequence s that hold u.
Occurrences(s, u) == Cardinality({i \in 1..Len(s) : s[i] = u})

\* The number of places task t holds in the ready queue, the deadline queue,
\* the read table, the write table and the waiter list of the queue.
Places(t) ==
    Occurrences(ready, Task(t))
    + Cardinality({i \in 1..Len(sleeping) : sleeping[i].func = Task(t)})
    + Cardinality({fd \in FDs : read_waiting[fd] = Task(t)})
    + Cardinality({fd \in FDs : write_waiting[fd] = Task(t)})
    + Occurrences(q.waiting, Task(t))

\* C16: at every instant a Task occurs at most once in total across the
\* ready queue, the deadline queue, the read table, the write table and the
\* waiter list, and nowhere while its coroutine is being driven.
C16_TaskInOnePlace ==
    \A t \in Tasks :
        /\ Places(t) <= 1
        /\ Running(t) => Places(t) = 0

\* Three tasks, each in a different structure: one ready, one in the
\* deadline queue, one registered for a descriptor.
C16_Witness ==
    /\ schedPc = "drain"
    /\ \E t, u, v \in Tasks :
          /\ Task(t) \in Range(ready)
          /\ \E i \in 1..Len(sleeping) : sleeping[i].func = Task(u)
          /\ \E fd \in FDs : read_waiting[fd] = Task(v) \/ write_waiting[fd] = Task(v)

\* The step is a Task step of t that ends with the coroutine suspended:
\* coro.send returned, so the test of line 119 is made.
Suspends(t) == Running(t) /\ schedPc' = "drain" /\ pc'[t] # "done"

\* C17: after a Task step in which the coroutine suspended, the Task has
\* appended itself to the tail of the ready queue if and only if current was
\* not cleared during the step; when sleep, recv, send, accept or get cleared
\* current the ready queue is as it was.
C17_RequeueIffCurrent ==
    [][\A t \in Tasks : Suspends(t) =>
          IF current' = None
          THEN ready' = ready
          ELSE current' = Task(t) /\ ready' = Append(ready, Task(t))]_vars

\* A task that switched is current and back at the tail of the ready queue,
\* while a task suspended by a helper is not in the ready queue.
C17_Witness ==
    /\ schedPc = "drain"
    /\ current # None
    /\ pc[current.id] = "run"
    /\ ready # <<>>
    /\ ready[Len(ready)] = current
    /\ \E u \in Tasks : pc[u] \in {"susp", "get"} /\ Task(u) \notin Range(ready)

\* C18: select is entered only with the ready queue empty, so every unit of
\* work enqueued during a drain pass, also by work of that pass, has been
\* invoked before the next wait; and a drain pass ends only with the ready
\* queue empty.
C18_WaitOnlyWhenDrained ==
    /\ [](schedPc = "wait" => ready = <<>>)
    /\ [][(schedPc = "drain" /\ schedPc' = "test") => ready = <<>>]_vars

\* run() is about to wait after a pass in which put() made a waiter ready
\* and the waiter ran and took the item.
C18_Witness ==
    /\ schedPc = "wait"
    /\ putSnap.taken
    /\ putSnap.waiting # <<>>
    /\ getLog # <<>>
    /\ getLog[1].task = putSnap.waiting[1].id

\* C19: a put(item) on an open queue with waiters appends item to the tail
\* of the item sequence, removes the oldest waiter and appends it to the tail
\* of the ready queue, and changes nothing else: the closed flag, the other
\* waiters and their order, the deadline queue, the tables, current and the
\* state of every task are as before.
C19_PutWakesOldestOnly ==
    [][\A t \in Tasks, item \in Items :
          (~q.closed /\ q.waiting # <<>> /\ \E h \in BOOLEAN : OpPut(t, item, h)) =>
              /\ q'.items = Append(q.items, item)
              /\ q'.waiting = Tail(q.waiting)
              /\ q'.closed = q.closed
              /\ ready' = Append(ready, Head(q.waiting))
              /\ res'[t] = Result("put", "ok", item)
              /\ UNCHANGED <<sleeping, sequence, read_waiting, write_waiting, current, pc, schedPc>>]_vars

\* put() has just found two waiters: the item is buffered, the older waiter
\* is at the tail of the ready queue and the younger is still registered.
C19_Witness ==
    /\ schedPc = "call"
    /\ putSnap.taken
    /\ Len(putSnap.waiting) = 2
    /\ q.waiting = Tail(putSnap.waiting)
    /\ putLog # <<>>
    /\ q.items = Append(putSnap.items, putLog[Len(putLog)])
    /\ ready # <<>>
    /\ ready[Len(ready)] = putSnap.waiting[1]

\* The descriptors whose registration in tbl is gone after the step.
Popped(tbl, tblAfter) == {fd \in FDs : tbl[fd] # None /\ tblAfter[fd] = None}

\* C20: the pass of lines 59-66 removes the registration of every
\* descriptor reported ready and appends its waiter to the ready queue
\* exactly once, the read waiters before the write waiters, and no unit of
\* work runs in that step; any other step leaves every registration in
\* place or replaces it by the running task, so a registration made by a
\* woken waiter in its resumed step is not removed by the earlier event.
C20_ReadinessPopsOnce ==
    /\ [][(schedPc = "wait" /\ schedPc' = "drain") =>
             /\ \A fd \in FDs :
                   /\ read_waiting'[fd] \in {read_waiting[fd], None}
                   /\ write_waiting'[fd] \in {write_waiting[fd], None}
             /\ \A fd \in Popped(read_waiting, read_waiting') :
                   Occurrences(ready', read_waiting[fd]) = 1
             /\ \A fd \in Popped(write_waiting, write_waiting') :
                   Occurrences(ready', write_waiting[fd]) = 1
             /\ \A fd \in Popped(read_waiting, read_waiting'), gd \in Popped(write_waiting, write_waiting') :
                   \E i, j \in 1..Len(ready') :
                       i < j /\ ready'[i] = read_waiting[fd] /\ ready'[j] = write_waiting[gd]
             /\ UNCHANGED <<pc, current, q>>]_vars
    /\ [][schedPc # "wait" =>
             \A fd \in FDs, t \in Tasks :
                 /\ read_waiting[fd] = Task(t) =>
                       read_waiting'[fd] = Task(t) \/ (Running(read_waiting'[fd].id) /\ pc[t] = "susp")
                 /\ write_waiting[fd] = Task(t) =>
                       write_waiting'[fd] = Task(t) \/ (Running(write_waiting'[fd].id) /\ pc[t] = "susp")]_vars

\* A descriptor was reported ready: its waiter, still suspended, is in the
\* ready queue and the tables are empty; no timer has fired.
C20_Witness ==
    /\ schedPc = "drain"
    /\ fired = <<>>
    /\ Registered(read_waiting) = {}
    /\ Registered(write_waiting) = {}
    /\ \E t \in Tasks : pc[t] = "susp" /\ Task(t) \in Range(ready)

\* C21 as stated: when run() returns every task started with new_task is
\* complete, and no task is registered in the waiter list of the queue.
C21_AllCompleteAtReturn ==
    schedPc = "returned" =>
        /\ \A t \in Tasks : pc[t] \in {"new", "unused", "done"}
        /\ q.waiting = <<>>

\* C21 amended: when run() returns nothing is ready, every timer has fired
\* and no descriptor is registered, but a started task need not be complete:
\* it is complete, or it is suspended in get() and registered exactly once
\* in the waiter list (run() does not look at the queue), or it is suspended
\* on a descriptor whose registration a later read_wait/write_wait replaced
\* and it is held by no structure at all.
C21_SuspendedOnlyOffScheduler ==
    schedPc = "returned" =>
        /\ ready = <<>>
        /\ Len(fired) = sequence
        /\ \A t \in Tasks :
              \/ pc[t] \in {"new", "unused", "done"}
              \/ pc[t] = "get" /\ Occurrences(q.waiting, Task(t)) = 1 /\ Places(t) = 1
              \/ pc[t] = "susp" /\ Places(t) = 0
        /\ \A i \in 1..Len(q.waiting) : pc[q.waiting[i].id] = "get"

\* run() has returned with a task complete and another still suspended in
\* get() on the open queue.
C21_Witness ==
    /\ schedPc = "returned"
    /\ ~q.closed
    /\ \E t, u \in Tasks : pc[t] = "get" /\ Task(t) \in Range(q.waiting) /\ pc[u] = "done"

\* C22: run() never enters select with the timeout None while the read
\* table and the write table are both empty: when it is about to wait and
\* no timer is pending, a descriptor is registered that can end the wait.
C22_NoBlindWait ==
    (schedPc = "wait" /\ Timeout(sleeping, now) = NoTimeout) =>
        Registered(read_waiting) \cup Registered(write_waiting) # {}

\* run() is about to wait without a timeout, for a descriptor only, after a
\* timer has fired.
C22_Witness ==
    /\ schedPc = "wait"
    /\ sleeping = <<>>
    /\ ready = <<>>
    /\ fired # <<>>
    /\ Registered(read_waiting) \cup Registered(write_waiting) # {}

\* ------------------------------------------------------------------ aproducer.py
\* The callback version: units of work are closures, run() (lines 26-38)
\* sleeps until the nearest deadline when nothing is ready, and get() takes
\* a callback.  Callback(t) stands for the closure that runs chain t:
\* `lambda: _run(n)` of producer(q, count), whose n is (ip[t] - 1) \div 2,
\* or `lambda: consumer(q)`; Retry(t) stands for the closure
\* `lambda: self.get(callback)` that get() leaves in the waiter list.
Retry(t) == [kind |-> "retry", id |-> t]

\* Lines 107-109 before the call_soon calls: one producer(q, count) and one
\* or more consumer(q), in any order.
InitA1 ==
    \E count \in 0..MaxCount, p \in Tasks, cs \in SUBSET Tasks :
        /\ cs # {}
        /\ p \notin cs
        /\ InitScripted([t \in Tasks |->
               IF t = p THEN Producer(count) ELSE IF t \in cs THEN Consumer ELSE Unused])

\* call_soon (lines 17-18) at lines 108-109.
A1_call_soon(t) ==
    /\ schedPc = "setup"
    /\ pc[t] = "new"
    /\ \A u \in Tasks : u < t => pc[u] # "new"
    /\ ready' = Append(ready, Callback(t))
    /\ pc' = [pc EXCEPT ![t] = "run"]
    /\ UNCHANGED <<sleeping, sequence, read_waiting, write_waiting, current, now, schedPc>>
    /\ UNCHANGED <<q, prog, ip, free, cbs, timerHist, queueHist>>

\* Line 27: the loop ends when nothing is ready and nothing sleeps.
A1_RunReturn ==
    /\ schedPc = "test"
    /\ ready = <<>>
    /\ sleeping = <<>>
    /\ schedPc' = "returned"
    /\ UNCHANGED <<ready, sleeping, sequence, read_waiting, write_waiting, current, now>>
    /\ UNCHANGED <<q, taskVars, cbs, timerHist, queueHist>>

\* Lines 28-34: with nothing ready the nearest sleeper is popped, waited for
\* (clk is the clock after time.sleep) and made ready; then the drain loop
\* of line 36 is entered.
A1_RunNext(clk) ==
    /\ schedPc = "test"
    /\ ready # <<>> \/ sleeping # <<>>
    /\ IF ready = <<>>
       THEN /\ clk >= sleeping[1].deadline
            /\ now' = clk
            /\ sleeping' = Tail(sleeping)
            /\ ready' = <<sleeping[1].func>>
            /\ fired' = Append(fired, FiredEntry(sleeping[1], sequence))
       ELSE UNCHANGED <<now, sleeping, ready, fired>>
    /\ schedPc' = "drain"
    /\ UNCHANGED <<sequence, read_waiting, write_waiting, current>>
    /\ UNCHANGED <<q, taskVars, cbs, calls, queueHist>>

\* Line 36: the drain loop ends when the ready queue is empty.
A1_DrainExit ==
    /\ schedPc = "drain"
    /\ ready = <<>>
    /\ schedPc' = "test"
    /\ UNCHANGED <<ready, sleeping, sequence, read_waiting, write_waiting, current, now>>
    /\ UNCHANGED <<q, taskVars, cbs, timerHist, queueHist>>

\* close (lines 60-61): the flag is set and nothing else.
A1_close(qu) == [qu EXCEPT !.closed = TRUE]

\* put (lines 63-71): exc is TRUE when put raises QueueClosed; the oldest
\* waiter is handed to call_soon.
A1_put(qu, rdy, item) ==
    IF qu.closed
    THEN [exc |-> TRUE, q |-> qu, ready |-> rdy]
    ELSE IF qu.waiting # <<>>
         THEN [exc |-> FALSE,
               q |-> [qu EXCEPT !.items = Append(qu.items, item), !.waiting = Tail(qu.waiting)],
               ready |-> Append(rdy, Head(qu.waiting))]
         ELSE [exc |-> FALSE, q |-> [qu EXCEPT !.items = Append(qu.items, item)], ready |-> rdy]

\* _run(n) of producer (lines 87-94), invoked from the ready queue: put(n)
\* and call_later(1, _run(n + 1)) while n < count, then close(); clk is the
\* clock read by call_later.  QueueClosed from put() would leave run().
A1_producer(clk) ==
    /\ schedPc = "drain"
    /\ ready # <<>>
    /\ Head(ready).kind = "cb"
    /\ ~prog[Head(ready).id].loop
    /\ LET p == Head(ready).id
           op == prog[p].ops[ip[p]]
           r == A1_put(q, Tail(ready), op.arg)
       IN  IF op.op = "close"
           THEN /\ q' = A1_close(q)
                /\ closedAt' = Snap(q)
                /\ ready' = Tail(ready)
                /\ ip' = [ip EXCEPT ![p] = 0]
                /\ pc' = [pc EXCEPT ![p] = "done"]
                /\ res' = [res EXCEPT ![p] = Result("close", "ok", 0)]
                /\ UNCHANGED <<now, sequence, sleeping, calls, putLog, putSnap, schedPc>>
           ELSE IF r.exc
           THEN /\ ready' = Tail(ready)
                /\ pc' = [pc EXCEPT ![p] = "raised"]
                /\ schedPc' = "raised"
                /\ res' = [res EXCEPT ![p] = Result("put", "QueueClosed", op.arg)]
                /\ UNCHANGED <<q, closedAt, ip, now, sequence, sleeping, calls, putLog, putSnap>>
           ELSE /\ q' = r.q
                /\ ready' = r.ready
                /\ putLog' = Append(putLog, op.arg)
                /\ putSnap' = Snap(q)
                /\ res' = [res EXCEPT ![p] = Result("put", "ok", op.arg)]
                /\ clk + prog[p].ops[ip[p] + 1].arg < MaxTime
                /\ now' = clk
                /\ sequence' = sequence + 1
                /\ sleeping' = HeapPush(sleeping,
                                   NewEntry(clk, sequence + 1, prog[p].ops[ip[p] + 1].arg, Callback(p)))
                /\ calls' = Append(calls, [delay |-> prog[p].ops[ip[p] + 1].arg, at |-> clk])
                /\ ip' = [ip EXCEPT ![p] = @ + 2]
                /\ UNCHANGED <<closedAt, pc, schedPc>>
    /\ UNCHANGED <<read_waiting, write_waiting, current>>
    /\ UNCHANGED <<prog, free, cbs, fired, getLog, nqc>>

\* get(callback) (lines 74-84) with the callback _consume of consumer c
\* (lines 98-104), run from the head of the ready queue.  With an item the
\* callback gets it and schedules consumer(q) again.  Without one, on a
\* closed queue the callback gets QueueClosed ("Consumer done"); and, closed
\* or not, the closure that calls get() again is appended to the waiter list.
A1_get(c) ==
    /\ IF q.items # <<>>
       THEN /\ q' = [q EXCEPT !.items = Tail(q.items)]
            /\ ready' = Append(Tail(ready), Callback(c))
            /\ getLog' = Append(getLog, [task |-> c, item |-> Head(q.items)])
            /\ res' = [res EXCEPT ![c] = Result("get", "item", Head(q.items))]
            /\ pc' = [pc EXCEPT ![c] = "run"]
            /\ UNCHANGED nqc
       ELSE /\ q' = [q EXCEPT !.waiting = Append(q.waiting, Retry(c))]
            /\ ready' = Tail(ready)
            /\ nqc' = [nqc EXCEPT ![c] = IF q.closed THEN @ + 1 ELSE @]
            /\ res' = [res EXCEPT ![c] = Result("get", IF q.closed THEN "QueueClosed" ELSE "blocked", 0)]
            /\ pc' = [pc EXCEPT ![c] = IF q.closed THEN "done" ELSE "get"]
            /\ UNCHANGED getLog
    /\ UNCHANGED <<sleeping, sequence, read_waiting, write_waiting, current, now, schedPc>>
    /\ UNCHANGED <<prog, ip, free, cbs, timerHist, putLog, closedAt, putSnap>>

\* consumer(q) (lines 97-105) at the head of the ready queue.
A1_consumer ==
    /\ schedPc = "drain"
    /\ ready # <<>>
    /\ Head(ready).kind = "cb"
    /\ prog[Head(ready).id].loop
    /\ A1_get(Head(ready).id)

\* A closure taken from the waiter list by put() is at the head of the
\* ready queue: it calls get() again (line 84).
A1_get_again ==
    /\ schedPc = "drain"
    /\ ready # <<>>
    /\ Head(ready).kind = "retry"
    /\ A1_get(Head(ready).id)

NextA1 ==
    \/ \E t \in Tasks : A1_call_soon(t)
    \/ RunStart
    \/ A1_RunReturn
    \/ \E clk \in Clock : A1_RunNext(clk)
    \/ A1_DrainExit
    \/ \E clk \in Clock : A1_producer(clk)
    \/ A1_consumer
    \/ A1_get_again

SpecA1 == InitA1 /\ [][NextA1]_vars

\* The consumers whose get() was pending in the waiter list when close()
\* ran.
PendingAtClose == {closedAt.waiting[i].id : i \in 1..Len(closedAt.waiting)}

\* C23: in aproducer.py, every get(callback) that is pending as a waiter on
\* the empty queue when close() is called has had its callback invoked with
\* QueueClosed by the time run() returns.
C23_PendingGetSeesClosure ==
    (schedPc = "returned" /\ closedAt.taken /\ closedAt.items = <<>>) =>
        \A c \in PendingAtClose : nqc[c] > 0

====
